---- MODULE Spec2Model ----
(***************************************************************************)
(* FibonacciDashboard (src/main.py): the Fibonacci data built once at      *)
(* construction, the star field, and the animation callbacks               *)
(* init_animation and update driven by FuncAnimation's timer.              *)
(*                                                                         *)
(* Number representation.                                                  *)
(*   - Python ints are TLA+ integers.                                      *)
(*   - A float quotient a / b is kept as the exact pair <<a, b>>; where    *)
(*     the code subtracts or prints it, it is expanded by long division.   *)
(*   - GOLDEN_RATIO and distances to it are in units of 10^-9.             *)
(*   - time is in units of 1/TimeScale, so rotation_speed 0.16 is 16.      *)
(*   - star-field quantities are fixed point: angles in milliradians,      *)
(*     radii in tenths, colours and scale factors in hundredths.           *)
(* Python lists are 0-based; TLA+ sequences are 1-based: At(s, i) is the   *)
(* Python s[i].                                                            *)
(***************************************************************************)
EXTENDS Integers, Sequences, FiniteSets

VARIABLES
    pc,            \* position in __init__ / the animation: see PcValues
    i,             \* loop variable of initialize_fibonacci_data
    sequence,      \* self.sequence
    ratios,        \* self.ratios
    stats_data,    \* self.stats_data
    theta,         \* self.theta
    r,             \* self.r
    angular_speed, \* self.angular_speed
    colors,        \* self.colors
    sizes,         \* self.sizes
    time,          \* self.time
    frames,        \* number of calls of update so far (history)
    current_idx,   \* current_idx of the most recent update (0 before the first)
    scatter,       \* self.scatter: offsets, colors, sizes
    ratio_line,    \* self.ratio_line: <<xdata, ydata>>
    ratio_dots,    \* self.ratio_dots: offsets
    spiral_line,   \* self.spiral_line: parameter range <<0, quarter turns>> of the drawn spiral
    stats_text,    \* self.stats_text: the lines of the statistics panel
    error,         \* exception raised by the most recent callback, "none" if it returned
    timer          \* FuncAnimation's event source: "running" or "stopped"

vars == <<pc, i, sequence, ratios, stats_data, theta, r, angular_speed, colors,
          sizes, time, frames, current_idx, scatter, ratio_line, ratio_dots,
          spiral_line, stats_text, error, timer>>

fib_vars == <<sequence, ratios, stats_data>>
galaxy_vars == <<theta, r, angular_speed, colors, sizes>>
artist_vars == <<scatter, ratio_line, ratio_dots, spiral_line, stats_text>>

----------------------------------------------------------------------------
\* Bounds of the model and constants of the program.

\* Frames the timer delivers before the model stops it.
MaxFrames == 66

\* Number of stars of the model (the program draws 4000).
n_stars == 1

n_terms == 20

\* 0.16 in units of 1/TimeScale.
rotation_speed == 16

TimeScale == 100

\* (1 + sqrt(5)) / 2 = 1.618033988749895 in units of 1/NanoScale.
GOLDEN_RATIO == 1618033989

NanoScale == 1000000000

\* 2 * pi and pi / 2 in milliradians.
TwoPiMilli == 6283

HalfPiMilli == 1571

PcValues == {"initialize_fibonacci_data", "fib_loop", "stats_data",
             "initialize_galaxy_data", "setup_plots", "start", "anim"}

----------------------------------------------------------------------------
\* Python built-ins.

Min(a, b) == IF a < b THEN a ELSE b

Max(a, b) == IF a > b THEN a ELSE b

Abs(a) == IF a < 0 THEN -a ELSE a

\* s[i] does not raise IndexError.
ValidIndex(s, k) == -Len(s) <= k /\ k < Len(s)

\* s[i], for a valid index.
At(s, k) == IF k >= 0 THEN s[k + 1] ELSE s[Len(s) + k + 1]

\* A slice bound clamped to the list, as s[lo:hi] does.
SliceBound(k, n) == IF k < 0 THEN Max(k + n, 0) ELSE Min(k, n)

\* s[lo:hi]
Slice(s, lo, hi) ==
    LET a == SliceBound(lo, Len(s))
        b == SliceBound(hi, Len(s))
    IN  [k \in 1..Max(b - a, 0) |-> s[a + k]]

\* list(range(a, b))
Range(a, b) == [k \in 1..Max(b - a, 0) |-> a + k - 1]

\* sum(s)
RECURSIVE Sum(_)
Sum(s) == IF s = <<>> THEN 0 ELSE s[1] + Sum(Tail(s))

\* a / b on ints: the float quotient, kept exact.
TrueDiv(a, b) == <<a, b>>

\* q digits of the decimal expansion of a quotient: <<floor, remainder>>.
RECURSIVE LongDiv(_, _, _, _)
LongDiv(q, rem, d, digits) ==
    IF digits = 0 THEN <<q, rem>>
    ELSE LongDiv(q * 10 + (rem * 10) \div d, (rem * 10) % d, d, digits - 1)

\* f"{x:.<digits>f}" of a non-negative quotient, as the integer x * 10^digits
\* rounded to nearest, ties to even.
FormatFixed(x, digits) ==
    LET fl == LongDiv(x[1] \div x[2], x[1] % x[2], x[2], digits)
    IN  IF 2 * fl[2] > x[2] \/ (2 * fl[2] = x[2] /\ fl[1] % 2 = 1)
        THEN fl[1] + 1 ELSE fl[1]

\* A quotient as a float in units of 1/NanoScale.
ToNano(x) == LongDiv(x[1] \div x[2], x[1] % x[2], x[2], 9)[1]

\* f"{e:.6f}" of a value in units of 1/NanoScale, as the integer e * 10^6.
FormatNano6(e) ==
    LET q == e \div 1000
        rem == e % 1000
    IN  IF rem > 500 \/ (rem = 500 /\ q % 2 = 1) THEN q + 1 ELSE q

\* f"{n:,}": the groups of three digits.
RECURSIVE ThousandsGroups(_)
ThousandsGroups(n) ==
    IF n < 1000 THEN <<n>> ELSE Append(ThousandsGroups(n \div 1000), n % 1000)

----------------------------------------------------------------------------
\* __init__ up to self.time = 0: nothing generated yet.

Init ==
    /\ pc = "initialize_fibonacci_data"
    /\ i = 0
    /\ sequence = <<>>
    /\ ratios = <<>>
    /\ stats_data = [Nilai |-> <<>>, Rasio |-> <<>>, Log |-> <<>>, Selisih |-> <<>>]
    /\ theta = <<>>
    /\ r = <<>>
    /\ angular_speed = <<>>
    /\ colors = <<>>
    /\ sizes = <<>>
    /\ time = 0
    /\ frames = 0
    /\ current_idx = 0
    /\ scatter = [offsets |-> <<>>, colors |-> <<>>, sizes |-> <<>>]
    /\ ratio_line = <<<<>>, <<>>>>
    /\ ratio_dots = <<>>
    /\ spiral_line = <<>>
    /\ stats_text = <<>>
    /\ error = "none"
    /\ timer = "stopped"

----------------------------------------------------------------------------
\* initialize_fibonacci_data

\* self.sequence = [1, 1]; self.ratios = [1]
initialize_fibonacci_data ==
    /\ pc = "initialize_fibonacci_data"
    /\ sequence' = <<1, 1>>
    /\ ratios' = <<TrueDiv(1, 1)>>
    /\ i' = 2
    /\ pc' = "fib_loop"
    /\ UNCHANGED <<stats_data, galaxy_vars, time, frames, current_idx,
                   artist_vars, error, timer>>

\* Mutant of NextTerm: the previous term added to itself.
NextTerm_same_term_twice(s, k) == At(s, k - 1) + At(s, k - 1)

\* self.sequence[i-1] + self.sequence[i-2]
NextTerm(s, k) == At(s, k - 1) + At(s, k - 2)

\* Mutant of NextRatio: the quotient taken upside down.
NextRatio_inverted(s, k) == TrueDiv(At(s, k - 1), At(s, k))

\* self.sequence[i] / self.sequence[i-1]
NextRatio(s, k) == TrueDiv(At(s, k), At(s, k - 1))

\* One iteration of: for i in range(2, self.n_terms)
fib_loop ==
    /\ pc = "fib_loop"
    /\ i < n_terms
    /\ LET appended == Append(sequence, NextTerm(sequence, i))
       IN  /\ sequence' = appended
           /\ ratios' = Append(ratios, NextRatio(appended, i))
    /\ i' = i + 1
    /\ UNCHANGED <<pc, stats_data, galaxy_vars, time, frames, current_idx,
                   artist_vars, error, timer>>

\* The loop is exhausted.
fib_loop_exit ==
    /\ pc = "fib_loop"
    /\ ~(i < n_terms)
    /\ pc' = "stats_data"
    /\ UNCHANGED <<i, fib_vars, galaxy_vars, time, frames, current_idx,
                   artist_vars, error, timer>>

\* self.stats_data = {...}; np.log(x) is kept symbolic.
build_stats_data ==
    /\ pc = "stats_data"
    /\ stats_data' =
         [Nilai   |-> sequence,
          Rasio   |-> ratios \o <<<<GOLDEN_RATIO, NanoScale>>>>,
          Log     |-> [k \in 1..Len(sequence) |-> <<"log", sequence[k]>>],
          Selisih |-> <<0>> \o [k \in 1..Max(Len(sequence) - 1, 0) |->
                                  At(sequence, k) - At(sequence, k - 1)]]
    /\ pc' = "initialize_galaxy_data"
    /\ UNCHANGED <<i, sequence, ratios, galaxy_vars, time, frames, current_idx,
                   artist_vars, error, timer>>

----------------------------------------------------------------------------
\* Fixed-point numerics of the star field.

\* floor(sqrt(x)), lo <= floor(sqrt(x)) < hi.
RECURSIVE IsqrtBetween(_, _, _)
IsqrtBetween(x, lo, hi) ==
    IF hi - lo <= 1 THEN lo
    ELSE LET mid == (lo + hi) \div 2
         IN  IF mid * mid <= x THEN IsqrtBetween(x, mid, hi)
             ELSE IsqrtBetween(x, lo, mid)

\* 10 * np.sin(a), a in milliradians: the value at the middle of a's octant.
Sin10(a) ==
    LET octant == ((a % TwoPiMilli) * 8) \div TwoPiMilli
    IN  <<4, 9, 9, 4, -4, -9, -9, -4>>[octant + 1]

\* 10 * np.cos(a)
Cos10(a) == Sin10(a + HalfPiMilli)

\* 1 / (r + 0.1)**0.5 in thousandths, r in tenths.
InvSqrt(rad) == IsqrtBetween(10000000 \div (rad + 1), 0, 3163)

\* The values the random draws of the model range over: angles in
\* milliradians, radii in tenths, brightness in tenths, sizes in units.
ThetaSamples == {0, 3142}

RSamples == {10, 40}

BrightnessSamples == {5, 10}

SizeSamples == {10, 40}

\* Red 0.8 + 0.2 b, green 0.6 b, blue 0.4 + 0.6 b, in hundredths.
StarColor(b) == <<80 + 2 * b, 6 * b, 40 + 6 * b>>

initialize_galaxy_data ==
    /\ pc = "initialize_galaxy_data"
    /\ \E th \in [1..n_stars -> ThetaSamples],
          rd \in [1..n_stars -> RSamples],
          br \in [1..n_stars -> BrightnessSamples],
          sz \in [1..n_stars -> SizeSamples] :
          /\ theta' = th
          /\ r' = rd
          /\ angular_speed' = [j \in 1..n_stars |-> InvSqrt(rd[j])]
          /\ colors' = [j \in 1..n_stars |-> StarColor(br[j])]
          /\ sizes' = sz
    /\ pc' = "setup_plots"
    /\ UNCHANGED <<i, fib_vars, time, frames, current_idx, artist_vars,
                   error, timer>>

\* setup_plots creates the empty artists; __init__ then creates the
\* FuncAnimation, whose timer starts with the window.
setup_plots ==
    /\ pc = "setup_plots"
    /\ scatter' = [offsets |-> <<>>, colors |-> <<>>, sizes |-> <<>>]
    /\ ratio_line' = <<<<>>, <<>>>>
    /\ ratio_dots' = <<>>
    /\ spiral_line' = <<>>
    /\ stats_text' = <<>>
    /\ pc' = "start"
    /\ timer' = "running"
    /\ UNCHANGED <<i, fib_vars, galaxy_vars, time, frames, current_idx, error>>

----------------------------------------------------------------------------
\* format_statistics

Line(label, value) == [label |-> label, value |-> value]

\* An index of format_statistics is out of range.
format_statistics_raises(idx) ==
    \/ ~ValidIndex(ratios, Min(idx, Len(ratios) - 1))
    \/ idx > 0 /\ ~(ValidIndex(sequence, idx) /\ ValidIndex(sequence, idx - 1))

\* Mutant of last_terms: the slice stops one short.
last_terms_stop_short(idx) == Slice(sequence, Max(0, idx - 4), idx)

\* self.sequence[max(0, current_idx-4):current_idx+1]
last_terms(idx) == Slice(sequence, Max(0, idx - 4), idx + 1)

\* self.ratios[min(current_idx, len(self.ratios)-1)]
current_ratio(idx) == At(ratios, Min(idx, Len(ratios) - 1))

\* (self.sequence[current_idx] / self.sequence[current_idx-1] - 1) * 100
growth_rate(idx) ==
    LET q == TrueDiv(At(sequence, idx), At(sequence, idx - 1))
    IN  <<(q[1] - q[2]) * 100, q[2]>>

\* sum(self.sequence[:current_idx+1])
total(idx) == Sum(Slice(sequence, 0, idx + 1))

\* Mutant of ratio_error: the difference without abs.
ratio_error_signed(q) == ToNano(q) - GOLDEN_RATIO

\* abs(current_ratio - self.GOLDEN_RATIO)
ratio_error(q) == Abs(ToNano(q) - GOLDEN_RATIO)

\* The lines joined by "\n", each with its label and its formatted number(s).
format_statistics(idx) ==
    <<Line("Deret Terakhir", last_terms(idx)),
      Line("Rasio Saat Ini", <<FormatFixed(current_ratio(idx), 6)>>),
      Line("Golden Ratio", <<FormatNano6(GOLDEN_RATIO)>>)>>
    \o (IF idx > 0
        THEN <<Line("Tingkat Pertumbuhan", <<FormatFixed(growth_rate(idx), 2)>>)>>
        ELSE <<>>)
    \o <<Line("Jumlah Total", ThousandsGroups(total(idx)))>>
    \o (IF idx > 1
        THEN <<Line("Error dari phi",
                    <<FormatNano6(ratio_error(current_ratio(idx)))>>)>>
        ELSE <<>>)

----------------------------------------------------------------------------
\* numpy arrays are objects: a heap maps each reference (the attribute that
\* holds the array, or "fresh" for the array an expression allocates) to the
\* array's contents, so that an in-place operator changes what every holder
\* of the reference sees.

\* Mutant of ndarray_copy: no copy, the same array under another name.
ndarray_copy_alias(heap, ref) == [heap |-> heap, ref |-> ref]

\* a.copy(): a new array with a's contents, and the reference to it.
ndarray_copy(heap, ref) ==
    [heap |-> [heap EXCEPT !.fresh = heap[ref]], ref |-> "fresh"]

\* a *= factor[:, np.newaxis] (in place): row j of a scaled by factor[j]
\* hundredths.
ndarray_imul(heap, ref, factor) ==
    [heap EXCEPT ![ref] =
        [j \in DOMAIN heap[ref] |->
            [c \in DOMAIN heap[ref][j] |-> (heap[ref][j][c] * factor[j]) \div 100]]]

\* np.clip(a, lo, hi): a new array.
np_clip(a, lo, hi) ==
    [j \in DOMAIN a |-> [c \in DOMAIN a[j] |-> Max(lo, Min(hi, a[j][c]))]]

\* np.c_[x, y]: the rows <<x[k], y[k]>>; the lengths must agree.
np_c_raises(x, y) == Len(x) # Len(y)

np_c_(x, y) == [k \in 1..Len(x) |-> <<x[k], y[k]>>]

----------------------------------------------------------------------------
\* The animation.

\* Mutant of init_animation: it also rewinds the clock.
init_animation_rewinds ==
    /\ pc \in {"start", "anim"}
    /\ scatter' = [scatter EXCEPT !.offsets = <<>>]
    /\ ratio_line' = <<<<>>, <<>>>>
    /\ ratio_dots' = <<>>
    /\ spiral_line' = <<>>
    /\ stats_text' = <<>>
    /\ error' = "none"
    /\ pc' = "anim"
    /\ timer' \in {timer, "running"}
    /\ time' = 0
    /\ UNCHANGED <<i, fib_vars, galaxy_vars, frames, current_idx>>

\* init_func: called by FuncAnimation before the first frame and again
\* whenever the figure is resized, which also restarts the timer.
init_animation ==
    /\ pc \in {"start", "anim"}
    /\ scatter' = [scatter EXCEPT !.offsets = <<>>]
    /\ ratio_line' = <<<<>>, <<>>>>
    /\ ratio_dots' = <<>>
    /\ spiral_line' = <<>>
    /\ stats_text' = <<>>
    /\ error' = "none"
    /\ pc' = "anim"
    /\ timer' \in {timer, "running"}
    /\ UNCHANGED <<i, fib_vars, galaxy_vars, time, frames, current_idx>>

\* int(self.time * 2): self.time is a sum of floats 0.16, so where the exact
\* product is an integer the float lies at or just below it.
IntTimeTimes2(t) ==
    LET exact == (t * 2) \div TimeScale
    IN  IF (t * 2) % TimeScale = 0 THEN {exact - 1, exact} ELSE {exact}

\* The exception update raises for current_idx, "none" if it returns.
update_error(idx) ==
    IF np_c_raises(Range(1, idx + 2), Slice(ratios, 0, idx + 1)) THEN "ValueError"
    ELSE IF format_statistics_raises(idx) THEN "IndexError"
    ELSE "none"

\* One timer tick. An exception leaves the callback at the raising line; whether
\* the timer then fires again depends on the GUI backend.
update ==
    /\ pc = "anim"
    /\ timer = "running"
    /\ frames < MaxFrames
    /\ \E raw \in IntTimeTimes2(time + rotation_speed), after \in {"running", "stopped"} :
        LET t == time + rotation_speed
            idx == raw % n_terms
            rotated_theta == [j \in 1..n_stars |->
                                theta[j] + (t * angular_speed[j]) \div TimeScale]
            phase == [j \in 1..n_stars |-> (t * 1000) \div TimeScale + rotated_theta[j]]
            r_dynamic == [j \in 1..n_stars |-> (r[j] * (100 + Sin10(phase[j]))) \div 100]
            x == [j \in 1..n_stars |-> (r_dynamic[j] * Cos10(rotated_theta[j])) \div 10]
            y == [j \in 1..n_stars |-> (r_dynamic[j] * Sin10(rotated_theta[j])) \div 10]
            heap0 == [theta |-> theta, r |-> r, angular_speed |-> angular_speed,
                      colors |-> colors, sizes |-> sizes, fresh |-> <<>>]
            copied == ndarray_copy(heap0, "colors")
            heap1 == ndarray_imul(copied.heap, copied.ref,
                                  [j \in 1..n_stars |-> 100 + 2 * Sin10(phase[j])])
            dynamic_colors == np_clip(heap1[copied.ref], 0, 100)
            dynamic_sizes == [j \in 1..n_stars |->
                                (sizes[j] * (100 + 3 * Sin10(phase[j]))) \div 100]
            x_data == Range(1, idx + 2)
            y_data == Slice(ratios, 0, idx + 1)
            err == update_error(idx)
        IN  /\ time' = t
            /\ frames' = frames + 1
            /\ current_idx' = idx
            /\ theta' = heap1.theta
            /\ r' = heap1.r
            /\ angular_speed' = heap1.angular_speed
            /\ colors' = heap1.colors
            /\ sizes' = heap1.sizes
            /\ scatter' = [offsets |-> np_c_(x, y), colors |-> dynamic_colors,
                           sizes |-> dynamic_sizes]
            /\ ratio_line' = <<x_data, y_data>>
            /\ ratio_dots' = IF err = "ValueError" THEN ratio_dots
                             ELSE np_c_(x_data, y_data)
            /\ spiral_line' = IF err = "ValueError" THEN spiral_line ELSE <<0, idx>>
            /\ stats_text' = IF err = "none" THEN format_statistics(idx) ELSE stats_text
            /\ error' = err
            /\ timer' = IF err = "none" THEN timer ELSE after
    /\ UNCHANGED <<pc, i, fib_vars>>

Construct ==
    \/ initialize_fibonacci_data
    \/ fib_loop
    \/ fib_loop_exit
    \/ build_stats_data
    \/ initialize_galaxy_data
    \/ setup_plots

Next ==
    \/ Construct
    \/ init_animation
    \/ update

Spec == Init /\ [][Next]_vars

\* The timer keeps delivering frames while it runs.
FairSpec == Spec /\ WF_vars(update)

----------------------------------------------------------------------------
\* format_statistics as a function of its argument: applied, after
\* construction, to every index of the sequence.

apply_format_statistics ==
    /\ pc = "start"
    /\ \E idx \in 0..(n_terms - 1) :
        /\ ~format_statistics_raises(idx)
        /\ current_idx' = idx
        /\ stats_text' = format_statistics(idx)
    /\ UNCHANGED <<pc, i, fib_vars, galaxy_vars, time, frames, scatter,
                   ratio_line, ratio_dots, spiral_line, error, timer>>

NextFormat ==
    \/ Construct
    \/ apply_format_statistics

SpecFormat == Init /\ [][NextFormat]_vars

----------------------------------------------------------------------------
\* Properties.

\* initialize_fibonacci_data has returned.
FibonacciDataReady == pc \notin {"initialize_fibonacci_data", "fib_loop"}

\* The object is constructed: only the animation callbacks run.
Constructed == pc \in {"start", "anim"}

\* The value of the line of the statistics panel with the given label.
LineValue(text, label) ==
    (CHOOSE l \in {text[k] : k \in DOMAIN text} : l.label = label).value

HasLine(text, label) == \E k \in DOMAIN text : text[k].label = label

\* sequence[0] + ... + sequence[k]
RECURSIVE SumThrough(_)
SumThrough(k) == IF k < 0 THEN 0 ELSE At(sequence, k) + SumThrough(k - 1)

\* The number printed as the groups g.
RECURSIVE GroupsValue(_)
GroupsValue(g) ==
    IF Len(g) = 1 THEN g[1]
    ELSE GroupsValue(SubSeq(g, 1, Len(g) - 1)) * 1000 + g[Len(g)]

\* C1: no frame update fails: update and format_statistics return without
\* raising in every frame, and the x and y data handed to the ratio panel
\* have the same length.
C1_NoFrameUpdateFails ==
    /\ error = "none"
    /\ Len(ratio_line[1]) = Len(ratio_line[2])

\* C2: after initialize_fibonacci_data, sequence has exactly n_terms entries,
\* sequence[0] = sequence[1] = 1 and sequence[k] = sequence[k-1] + sequence[k-2]
\* for every k in 2..n_terms-1.
C2_SequenceIsFibonacci ==
    FibonacciDataReady =>
        /\ Len(sequence) = n_terms
        /\ At(sequence, 0) = 1
        /\ At(sequence, 1) = 1
        /\ \A k \in 2..(n_terms - 1) :
             At(sequence, k) = At(sequence, k - 1) + At(sequence, k - 2)

\* C2 witness: the loop has just filled the sequence.
C2_Witness == pc = "stats_data" /\ i = n_terms /\ Len(sequence) = n_terms

\* C3: after initialize_fibonacci_data, ratios has n_terms-1 entries and
\* ratios[k] * sequence[k] = sequence[k+1] for every k in 0..n_terms-2.
C3_RatiosAreConsecutiveQuotients ==
    FibonacciDataReady =>
        /\ Len(ratios) = n_terms - 1
        /\ \A k \in 0..(n_terms - 2) :
             At(ratios, k)[1] * At(sequence, k) = At(sequence, k + 1) * At(ratios, k)[2]

\* C3 witness: the ratios are complete and in use by the statistics table.
C3_Witness ==
    /\ pc = "initialize_galaxy_data"
    /\ Len(ratios) = n_terms - 1
    /\ Len(stats_data.Rasio) = n_terms

\* C4: the clock starts at 0, every update adds exactly rotation_speed, so
\* that after k updates it is k * rotation_speed, and no step decreases it,
\* a repeated init_animation included.
C4_ClockAdvancesMonotonically ==
    /\ time = 0
    /\ [][update => time' = time + rotation_speed]_vars
    /\ [][init_animation => time' = time]_vars
    /\ [][time' >= time]_vars
    /\ [](time = frames * rotation_speed)

\* C4 witness: init_animation has run again after several updates.
C4_Witness ==
    /\ frames >= 2
    /\ time = frames * rotation_speed
    /\ stats_text = <<>>
    /\ ratio_line = <<<<>>, <<>>>>

\* C5: once constructed, no step changes sequence, ratios, stats_data, theta,
\* r, angular_speed, colors or sizes.
C5_StaticDataNeverMutated ==
    [][Constructed =>
         UNCHANGED <<sequence, ratios, stats_data, theta, r, angular_speed,
                     colors, sizes>>]_vars

\* C5 witness: a frame whose modulated, clipped colours differ from colors.
C5_Witness ==
    /\ frames > 0
    /\ Len(scatter.colors) = n_stars
    /\ scatter.colors # colors
    /\ \E j \in 1..n_stars : \E c \in 1..3 : scatter.colors[j][c] = 100

\* C6: over the generated ratios the distance to GOLDEN_RATIO strictly
\* decreases as the index grows.
C6_RatiosApproachGoldenRatio ==
    FibonacciDataReady =>
        \A k \in 0..(n_terms - 3) :
            ratio_error(At(ratios, k + 1)) < ratio_error(At(ratios, k))

\* C6 witness: all ratios generated, the last one still off the golden ratio.
C6_Witness ==
    /\ pc = "setup_plots"
    /\ Len(ratios) = n_terms - 1
    /\ ratio_error(At(ratios, n_terms - 2)) > 0

\* C7: format_statistics(current_idx) lists min(current_idx+1, 5) last terms,
\* sequence[max(0, current_idx-4)..current_idx] in order, and its total is
\* sequence[0] + ... + sequence[current_idx].
C7_LastTermsAndTotal ==
    (pc = "start" /\ stats_text # <<>>) =>
        LET terms == LineValue(stats_text, "Deret Terakhir")
            first == Max(0, current_idx - 4)
        IN  /\ Len(terms) = Min(current_idx + 1, 5)
            /\ \A j \in 1..Len(terms) : terms[j] = At(sequence, first + j - 1)
            /\ terms[Len(terms)] = At(sequence, current_idx)
            /\ GroupsValue(LineValue(stats_text, "Jumlah Total")) = SumThrough(current_idx)

\* C7 witness: the statistics of the last index, five terms listed.
C7_Witness ==
    /\ pc = "start"
    /\ stats_text # <<>>
    /\ current_idx = n_terms - 1
    /\ Len(LineValue(stats_text, "Deret Terakhir")) = 5

\* C7 witness of the short case: fewer than five terms exist.
C7_WitnessShort ==
    /\ pc = "start"
    /\ stats_text # <<>>
    /\ current_idx = 2
    /\ Len(LineValue(stats_text, "Deret Terakhir")) = 3

\* C8: in every frame current_idx is in 0..n_terms-1, from one update to the
\* next it stays or advances by 1 modulo n_terms, and the frame displays it
\* (so that every index is displayed, in ascending cyclic order).
C8_IndexFollowsClockAndIsDisplayed ==
    [][update =>
         /\ current_idx' \in 0..(n_terms - 1)
         /\ current_idx' \in {current_idx, (current_idx + 1) % n_terms}
         /\ spiral_line' = <<0, current_idx'>>
         /\ stats_text' = format_statistics(current_idx')]_vars

\* C8, the part about the computed index alone: range and step.
C8_IndexRangeAndStep ==
    [][update =>
         /\ current_idx' \in 0..(n_terms - 1)
         /\ current_idx' \in {current_idx, (current_idx + 1) % n_terms}]_vars

\* C8, liveness: the last index is eventually displayed.
C8_LastIndexEventuallyDisplayed == <>(spiral_line = <<0, n_terms - 1>>)

\* C9: in a frame with current_idx >= 1 the current ratio shown is
\* sequence[current_idx] / sequence[current_idx-1], the quotient the growth
\* rate is computed from.
C9_CurrentRatioIsLastQuotient ==
    (pc = "anim" /\ error = "none" /\ stats_text # <<>> /\ current_idx >= 1) =>
        LineValue(stats_text, "Rasio Saat Ini") =
            <<FormatFixed(TrueDiv(At(sequence, current_idx),
                                  At(sequence, current_idx - 1)), 6)>>

\* C9, what the code shows instead: the quotient of the next pair, except at
\* the last index.
C9_CurrentRatioIsNextQuotient ==
    (pc = "anim" /\ error = "none" /\ stats_text # <<>>) =>
        LET k == Min(current_idx, n_terms - 2)
        IN  LineValue(stats_text, "Rasio Saat Ini") =
                <<FormatFixed(TrueDiv(At(sequence, k + 1), At(sequence, k)), 6)>>

====
